---- MODULE Spec2Model ----
(***************************************************************************)
(* Model of the agent session of ai-agent-interactions:                    *)
(* src/src/gemini_manager.py (GeminiAgent) with its persistence            *)
(* collaborator src/src/db_manager.py.                                     *)
(*                                                                         *)
(* A Python str is a sequence of one-character strings.  An Optional value *)
(* is a sequence of length 0 (None) or 1 (the value).  One GeminiAgent is  *)
(* modelled; the program is synchronous, so an operation on the agent      *)
(* starts only when no send_message call is in progress (pc = "idle").     *)
(* send_message is split at the points where the remote stream decides     *)
(* what happens next: a chunk is delivered, the stream raises, the stream  *)
(* is exhausted.                                                           *)
(***************************************************************************)
EXTENDS Integers, Sequences, FiniteSets, TLC

VARIABLES
    model_name,          \* self.model_name
    context,             \* self.context: list of str
    history,             \* self.history: list of turn records
    input_token_count,   \* self.input_token_count
    output_token_count,  \* self.output_token_count
    pc,                  \* position inside send_message: "idle", "streaming", "except"
    i,                   \* loop variable of send_message (attempt number)
    prompt,              \* local of send_message: the assembled prompt
    response,            \* local of send_message: the response buffer
    ret,                 \* outcome of the last completed operation
    pre,                 \* fields of the agent when this send_message call started
    arg,                 \* prompt argument of this send_message call
    streams,             \* prompts passed to send_message_stream in this call
    sleeps,              \* arguments of time.sleep in this call
    fragments,           \* per attempt of this call, chunk.text of the chunks delivered
    sum_prompt_tokens,   \* sum of prompt_token_count reported in this call
    sum_thoughts_tokens, \* sum of thoughts_token_count reported in this call
    db,                  \* rows committed to the sqlite table
    clock,               \* datetime.now(), as a logical clock
    added,               \* entries added since the last send_message that returned,
                         \* each with whether reset_context was called after it
    events,              \* add_context calls, send_message calls and chunks so far
    failed_call          \* the last send_message call that raised RuntimeError, if no
                         \* call has returned since: the context it left, the length
                         \* of added, whether reset_context was called after it

VARIABLES
    config,              \* the config dict handed to _parse_config
    parsed               \* outcome of the _parse_config call, None before it

VARIABLES
    client_dict,         \* AIManager.client_dict: AI name -> client
    agent_dict,          \* AIManager.agent_dict: agent name -> agent
    agent_keys,          \* the keys of agent_dict in the order of the dict
    mdb,                 \* rows committed to the history table by the agents
    mclock,              \* number of timestamps taken by the agents
    mevents,             \* add_context and send_message calls made through AIManager
    chats_created,       \* number of client.chats.create calls
    mret                 \* the last AIManager or constructor call and its outcome

session_vars == <<model_name, context, history, input_token_count, output_token_count,
                  pc, i, prompt, response, ret, pre, arg, streams, sleeps, fragments,
                  sum_prompt_tokens, sum_thoughts_tokens, db, clock, added, events,
                  failed_call>>
config_vars == <<config, parsed>>
manager_vars == <<client_dict, agent_dict, agent_keys, mdb, mclock, mevents,
                  chats_created, mret>>

vars == <<session_vars, config_vars, manager_vars>>

----------------------------------------------------------------------------
(* Bounds of the model *)

(* add_context calls, send_message calls and delivered chunks in one behaviour *)
MaxEvents == 4

(* keys of a config dict handed to _parse_config *)
MaxConfigKeys == 3

(* Optional values *)
None == <<>>
Some(v) == <<v>>
IsNone(o) == o = <<>>
Val(o) == o[1]

(* Inputs *)
NL == "\n"
Labels == {<<"A">>}
Infos == {<<"x">>, <<"y">>}
Prompts == {<<>>, <<" ", "q", NL>>}
Chunk(text, prompt_tokens, thoughts_tokens) ==
    [text |-> text, prompt_token_count |-> prompt_tokens,
     thoughts_token_count |-> thoughts_tokens]
Chunks == {Chunk(Some(<<"a">>), Some(1), Some(1)),
           Chunk(Some(<<"b">>), Some(1), Some(0)),
           Chunk(None, Some(0), Some(1)),
           Chunk(Some(<<"a">>), None, Some(1)),
           Chunk(Some(<<"b">>), Some(1), None)}
AgentName == <<"j">>

(* Inputs of the prompt assembly *)
JoinLabels == {<<"A">>, <<"B">>}
JoinInfos == {<<"x">>, <<"y">>}
JoinPrompts == {<<>>, <<"h", "i">>, <<" ", "q", NL>>, <<" ">>}

----------------------------------------------------------------------------
(* Constants of gemini_manager.py *)

AVAILABLE_MODELS == {"gemini-3-pro-preview", "gemini-2.5-flash", "gemini-2.5-flash-lite"}

(* str.strip(): the whitespace characters of the model's alphabet *)
Whitespace == {" ", NL, "\t"}

RECURSIVE lstrip(_)
lstrip(s) ==
    IF s # <<>> /\ Head(s) \in Whitespace THEN lstrip(Tail(s)) ELSE s

RECURSIVE rstrip(_)
rstrip(s) ==
    IF s # <<>> /\ s[Len(s)] \in Whitespace
    THEN rstrip(SubSeq(s, 1, Len(s) - 1)) ELSE s

strip(s) == rstrip(lstrip(s))

(* "\n".join(list) *)
RECURSIVE join(_, _)
join(sep, list) ==
    IF list = <<>> THEN <<>>
    ELSE IF Len(list) = 1 THEN list[1]
    ELSE list[1] \o sep \o join(sep, Tail(list))

(* f"{info_name}: {info}" *)
context_entry_colon(info_name, info) == info_name \o <<":", " ">> \o info

(* f"[{info_name}] {info}" *)
context_entry(info_name, info) == <<"[">> \o info_name \o <<"]", " ">> \o info

(* _join_context with .strip() applied to the bare prompt too *)
_join_context_strips_prompt(ctx, p) ==
    LET full_context == join(<<NL>>, ctx)
    IN  IF full_context # <<>>
        THEN strip(<<"C", "o", "n", "t", "e", "x", "t", ":", NL>> \o full_context
                   \o <<NL, NL, "U", "s", "e", "r", " ", "Q", "u", "e", "r", "y", ":", NL>>
                   \o p)
        ELSE strip(p)

(* GeminiAgent._join_context *)
_join_context(ctx, p) ==
    LET full_context == join(<<NL>>, ctx)
    IN  IF full_context # <<>>
        THEN strip(<<"C", "o", "n", "t", "e", "x", "t", ":", NL>> \o full_context
                   \o <<NL, NL, "U", "s", "e", "r", " ", "Q", "u", "e", "r", "y", ":", NL>>
                   \o p)
        ELSE p

(* record_history called with the caller's prompt instead of the assembled one *)
record_history_raw_prompt(h, p, r, now) ==
    Append(h, [timestamp |-> now, model |-> model_name, name |-> AgentName,
               prompt |-> arg, response |-> r])

(* GeminiAgent.record_history *)
record_history(h, p, r, now) ==
    Append(h, [timestamp |-> now, model |-> model_name, name |-> AgentName,
               prompt |-> p, response |-> r])

(* range(1, 5) *)
LastAttempt_four == 3 + 1

(* range(1, 4) *)
LastAttempt == 3

(* 20 * 2 ** (i - 1) *)
backoff_from_zero(n) == 20 * 2 ^ (n - 1)

(* 20 * 2 ** i *)
backoff(n) == 20 * 2 ^ n

(* chunk.text or "" *)
text_part(chunk) ==
    IF IsNone(chunk.text) \/ Val(chunk.text) = <<>> THEN <<>> ELSE Val(chunk.text)

(* self.input_token_count = chunk.usage_metadata.prompt_token_count *)
add_input_tokens_assign(count, v) == v

(* self.input_token_count += chunk.usage_metadata.prompt_token_count *)
add_input_tokens(count, v) == count + v

(* self.output_token_count = chunk.usage_metadata.thoughts_token_count *)
add_output_tokens_assign(count, v) == v

(* self.output_token_count += chunk.usage_metadata.thoughts_token_count + self.output_token_count *)
add_output_tokens(count, v) == count + (v + count)

Snapshot ==
    [context |-> context, history |-> history,
     input_token_count |-> input_token_count,
     output_token_count |-> output_token_count]

NoSnapshot ==
    [context |-> <<>>, history |-> <<>>,
     input_token_count |-> 0, output_token_count |-> 0]

Ret(op, status, value) == [op |-> op, status |-> status, value |-> value]

----------------------------------------------------------------------------
(* Python values of a config dict: the type t of the value and, by type, *)
(* the text s of a str, the number n of an int or of a float (a float in  *)
(* tenths), the elements l of a list, the items d of a dict in insertion  *)
(* order.                                                                  *)

PyValue(t, s, n, l, d) == [t |-> t, s |-> s, n |-> n, l |-> l, d |-> d]
PyStr(s) == PyValue("str", s, 0, <<>>, <<>>)
PyInt(n) == PyValue("int", "", n, <<>>, <<>>)
PyFloat(tenths) == PyValue("float", "", tenths, <<>>, <<>>)
PyList(elems) == PyValue("list", "", 0, elems, <<>>)
PyDict(items) == PyValue("dict", "", 0, <<>>, items)
NoneValue == PyValue("NoneType", "", 0, <<>>, <<>>)

(* float(x) of an int or a float, in tenths *)
float(x) == IF x.t = "int" THEN PyFloat(10 * x.n) ELSE x

(* str(x) as an f-string interpolates it *)
str(x) == IF x.t = "str" THEN x.s ELSE ToString(x.n)

(* isinstance(x, list) and all(isinstance(t, str) for t in x) *)
is_list_of_str(x) ==
    /\ x.t = "list"
    /\ \A n \in 1..Len(x.l) : x.l[n].t = "str"

(* set(x) of a list *)
set(x) == {x.l[n] : n \in 1..Len(x.l)}

VALID_SAFETY_VALUES ==
    {"HARM_CATEGORY_HARASSMENT", "HARM_CATEGORY_HATE_SPEECH",
     "HARM_CATEGORY_SEXUALLY_EXPLICIT", "HARM_CATEGORY_DANGEROUS_CONTENT",
     "HARM_CATEGORY_CIVIC_INTEGRITY"}

SAFETY_THRESHOLDS ==
    {"BLOCK_LOW_AND_ABOVE", "BLOCK_MEDIUM_AND_ABOVE", "BLOCK_ONLY_HIGH"}

TOOL_CONFIG_VALUES == {"AUTO", "ANY", "NONE"}

available_config_options ==
    {"system_instruction", "tools", "tool_config_mode", "allowed_tool_for_config",
     "safety_setting", "temperature", "top_p", "top_k", "max_output_tokens",
     "response_mime_type"}

(* the key names of the model in the order sorted() gives them *)
SortedKeys ==
    <<"allowed_tool_for_config", "foo", "max_output_tokens", "response_mime_type",
      "safety_setting", "system_instruction", "temperature", "tool_config_mode",
      "tools", "top_k", "top_p">>

sorted(keys) == SelectSeq(SortedKeys, LAMBDA k : k \in keys)

(* config.get(key) *)
get(cfg, key) == IF key \in DOMAIN cfg THEN cfg[key] ELSE NoneValue

is_not_None(x) == x.t # "NoneType"

ValueError(msg) == Ret("_parse_config", "ValueError", msg)

(* types.GenerateContentConfig built from config_kwargs: the keyword arguments *)
GenerateContentConfig(config_kwargs) == Ret("_parse_config", "ok", config_kwargs)

(* set(config.keys()) - set(available_config_options), with no key left out *)
extra_empty(cfg) == {}

(* set(config.keys()) - set(available_config_options) *)
extra(cfg) == DOMAIN cfg \ available_config_options

(* index of the first item of safety_setting that is rejected, 0 if none *)
first_bad_item(items) ==
    IF \E n \in 1..Len(items) : items[n][1] \notin VALID_SAFETY_VALUES
                                \/ items[n][2] \notin SAFETY_THRESHOLDS
    THEN CHOOSE n \in 1..Len(items) :
             /\ items[n][1] \notin VALID_SAFETY_VALUES \/ items[n][2] \notin SAFETY_THRESHOLDS
             /\ \A m \in 1..(n - 1) : /\ items[m][1] \in VALID_SAFETY_VALUES
                                      /\ items[m][2] \in SAFETY_THRESHOLDS
    ELSE 0

(* the safety_setting block: the message of the ValueError it raises, <<>> if none *)
safety_setting_error(safety_setting) ==
    IF ~is_not_None(safety_setting) THEN <<>>
    ELSE IF safety_setting.t # "dict" THEN <<"safety_setting", " must be a dict">>
    ELSE LET n == first_bad_item(safety_setting.d) IN
         IF n = 0 THEN <<>>
         ELSE IF safety_setting.d[n][1] \notin VALID_SAFETY_VALUES
              THEN <<safety_setting.d[n][1], " is not a valid safety category (use uppercase)">>
              ELSE <<safety_setting.d[n][2], " is not a valid safety threshold (use uppercase)">>

(* the tool_config_mode block *)
tool_config_mode_error(tool_config_mode) ==
    IF /\ is_not_None(tool_config_mode)
       /\ (tool_config_mode.t # "str" \/ tool_config_mode.s \notin TOOL_CONFIG_VALUES)
    THEN <<str(tool_config_mode), " Tool Config mode is invalid (maybe use all uppercase)">>
    ELSE <<>>

(* the allowed_tool_for_config block *)
allowed_tool_for_config_error(allowed_tool_for_config, tools) ==
    IF ~is_not_None(allowed_tool_for_config) THEN <<>>
    ELSE IF ~is_list_of_str(allowed_tool_for_config)
         THEN <<"allowed_tool_for_config", " must be a list of strings">>
    ELSE IF is_not_None(tools) /\ ~(set(allowed_tool_for_config) \subseteq set(tools))
         THEN <<"allowed_tool_for_config", " must be a subset of ", "tools">>
    ELSE <<>>

(* the temperature block, with the upper end of the range left open *)
temperature_error_open(temperature) ==
    IF /\ is_not_None(temperature)
       /\ \/ temperature.t \notin {"int", "float"}
          \/ ~(0 <= float(temperature).n /\ float(temperature).n < 20)
    THEN <<"temperature", " must be a number between 0.0 and 2.0">>
    ELSE <<>>

(* the temperature block *)
temperature_error(temperature) ==
    IF /\ is_not_None(temperature)
       /\ \/ temperature.t \notin {"int", "float"}
          \/ ~(0 <= float(temperature).n /\ float(temperature).n <= 20)
    THEN <<"temperature", " must be a number between 0.0 and 2.0">>
    ELSE <<>>

(* the top_p block *)
top_p_error(top_p) ==
    IF /\ is_not_None(top_p)
       /\ \/ top_p.t \notin {"int", "float"}
          \/ ~(0 <= float(top_p).n /\ float(top_p).n <= 10)
    THEN <<"top_p", " must be a number between 0.0 and 1.0">>
    ELSE <<>>

(* the top_k block *)
top_k_error(top_k) ==
    IF is_not_None(top_k) /\ (top_k.t # "int" \/ top_k.n < 0)
    THEN <<"top_k", " must be a non-negative integer">>
    ELSE <<>>

(* the max_output_tokens block *)
max_output_tokens_error(max_output_tokens) ==
    IF is_not_None(max_output_tokens)
       /\ (max_output_tokens.t # "int" \/ max_output_tokens.n <= 0)
    THEN <<"max_output_tokens", " must be a positive integer">>
    ELSE <<>>

(* the messages of the validation blocks in the order the code runs them *)
validation_errors(cfg) ==
    << IF is_not_None(get(cfg, "system_instruction"))
          /\ get(cfg, "system_instruction").t # "str"
       THEN <<"system_instruction", " must be a string">> ELSE <<>>,
       IF is_not_None(get(cfg, "tools")) /\ ~is_list_of_str(get(cfg, "tools"))
       THEN <<"tools", " must be a list of strings">> ELSE <<>>,
       safety_setting_error(get(cfg, "safety_setting")),
       tool_config_mode_error(get(cfg, "tool_config_mode")),
       allowed_tool_for_config_error(get(cfg, "allowed_tool_for_config"), get(cfg, "tools")),
       temperature_error(get(cfg, "temperature")),
       top_p_error(get(cfg, "top_p")),
       top_k_error(get(cfg, "top_k")),
       max_output_tokens_error(get(cfg, "max_output_tokens")),
       IF is_not_None(get(cfg, "response_mime_type"))
          /\ get(cfg, "response_mime_type").t # "str"
       THEN <<"response_mime_type", " must be a string">> ELSE <<>> >>

(* types.ToolConfig(function_calling_config = FunctionCallingConfig(...)) *)
ToolConfig(mode, allowed_function_names) ==
    [t |-> "ToolConfig",
     v |-> [mode |-> mode, allowed_function_names |-> allowed_function_names]]

(* the names of config_kwargs *)
kwarg_names(cfg) ==
    {k \in {"temperature", "top_p", "top_k", "max_output_tokens", "system_instruction",
            "tools", "response_mime_type"} : is_not_None(get(cfg, k))}
    \cup (IF is_not_None(get(cfg, "safety_setting")) THEN {"safety_settings"} ELSE {})
    \cup (IF is_not_None(get(cfg, "tool_config_mode")) THEN {"tool_config"} ELSE {})

(* config_kwargs as the code fills it *)
config_kwargs(cfg) ==
    [k \in kwarg_names(cfg) |->
        CASE k \in {"temperature", "top_p"} -> float(get(cfg, k))
          [] k = "safety_settings" -> PyList(get(cfg, "safety_setting").d)
          [] k = "tool_config" ->
                 ToolConfig(get(cfg, "tool_config_mode").s,
                            IF is_not_None(get(cfg, "allowed_tool_for_config"))
                            THEN Some(get(cfg, "allowed_tool_for_config").l)
                            ELSE None)
          [] OTHER -> get(cfg, k)]

(* GeminiAgent._parse_config: the first violation raises ValueError *)
_parse_config(cfg) ==
    IF extra(cfg) # {}
    THEN ValueError(<<"Unknown config keys: ">> \o sorted(extra(cfg)))
    ELSE LET errors == validation_errors(cfg)
             raised == {n \in 1..Len(errors) : errors[n] # <<>>}
         IN  IF raised # {}
             THEN ValueError(errors[CHOOSE n \in raised : \A m \in raised : n <= m])
             ELSE GenerateContentConfig(config_kwargs(cfg))

----------------------------------------------------------------------------
(* Inputs of _parse_config *)

ConfigKeys == available_config_options \cup {"foo"}

AllCategories ==
    <<<<"HARM_CATEGORY_HARASSMENT", "BLOCK_LOW_AND_ABOVE">>,
      <<"HARM_CATEGORY_HATE_SPEECH", "BLOCK_MEDIUM_AND_ABOVE">>,
      <<"HARM_CATEGORY_SEXUALLY_EXPLICIT", "BLOCK_ONLY_HIGH">>,
      <<"HARM_CATEGORY_DANGEROUS_CONTENT", "BLOCK_ONLY_HIGH">>,
      <<"HARM_CATEGORY_CIVIC_INTEGRITY", "BLOCK_LOW_AND_ABOVE">>>>

(* values a caller may give to an option *)
OptionValues(key) ==
    CASE key = "system_instruction" -> {PyStr("abc"), PyInt(1), NoneValue}
      [] key = "tools" ->
             {PyList(<<PyStr("tool1"), PyStr("tool2")>>), PyList(<<PyStr("tool1")>>),
              PyList(<<PyInt(1)>>), PyStr("tool1")}
      [] key = "tool_config_mode" ->
             {PyStr("AUTO"), PyStr("ANY"), PyStr("NONE"), PyStr("auto"), PyInt(1)}
      [] key = "allowed_tool_for_config" ->
             {PyList(<<PyStr("tool1")>>), PyList(<<PyStr("tool3")>>), PyList(<<>>),
              PyStr("tool1")}
      [] key = "safety_setting" ->
             {PyDict(AllCategories), PyDict(<<>>),
              PyDict(<<<<"HARM_CONTENT_HARASSMENT", "BLOCK_ONLY_HIGH">>>>),
              PyDict(<<<<"HARM_CATEGORY_HATE_SPEECH", "BLOCK_ONLY_HIGH">>,
                       <<"HARM_CATEGORY_HARASSMENT", "block_only_high">>>>),
              PyList(<<>>)}
      [] key = "temperature" ->
             {PyFloat(0), PyFloat(20), PyFloat(21), PyFloat(-1), PyInt(2), PyStr("0.7")}
      [] key = "top_p" ->
             {PyFloat(0), PyFloat(10), PyFloat(11), PyFloat(-1), PyInt(1), PyStr("0.9")}
      [] key = "top_k" -> {PyInt(0), PyInt(40), PyInt(-1), PyFloat(10)}
      [] key = "max_output_tokens" ->
             {PyInt(0), PyInt(1), PyInt(1024), PyInt(-1), PyFloat(10)}
      [] key = "response_mime_type" -> {PyStr("text/plain"), PyInt(1)}
      [] key = "foo" -> {PyStr("abc"), PyInt(1)}

(* the dict cfg with cfg[key] = value *)
with_option(cfg, key, value) ==
    [k \in DOMAIN cfg \cup {key} |-> IF k = key THEN value ELSE cfg[k]]

RECURSIVE ConfigsOver(_)
(* the config dicts whose keys are keys *)
ConfigsOver(keys) ==
    IF keys = {} THEN {<<>>}
    ELSE LET key == CHOOSE k \in keys : TRUE
         IN  {with_option(cfg, key, value) :
                  cfg \in ConfigsOver(keys \ {key}), value \in OptionValues(key)}

(* the sets of keys a config dict of the model may have *)
KeySets == {keys \in SUBSET ConfigKeys : Cardinality(keys) <= MaxConfigKeys}

----------------------------------------------------------------------------
(* no _parse_config call is modelled *)
NoConfig ==
    /\ config = <<>>
    /\ parsed = None

(* outcome of a call together with its arguments *)
MRet(op, args, status, value) ==
    [op |-> op, args |-> args, status |-> status, value |-> value]

(* AIManager.__init__: both registries empty, no channel opened yet *)
NoManager ==
    /\ client_dict = <<>>
    /\ agent_dict = <<>>
    /\ agent_keys = <<>>
    /\ mdb = <<>>
    /\ mclock = 0
    /\ mevents = 0
    /\ chats_created = 0
    /\ mret = MRet("__init__", <<>>, "ok", <<>>)

(* the fields GeminiAgent.__init__ sets, and no call made yet *)
SessionConstructed ==
    /\ context = <<>>
    /\ history = <<>>
    /\ input_token_count = 0
    /\ output_token_count = 0
    /\ pc = "idle"
    /\ i = 0
    /\ prompt = <<>>
    /\ response = <<>>
    /\ ret = Ret("__init__", "ok", <<>>)
    /\ pre = NoSnapshot
    /\ arg = <<>>
    /\ streams = <<>>
    /\ sleeps = <<>>
    /\ fragments = <<>>
    /\ sum_prompt_tokens = 0
    /\ sum_thoughts_tokens = 0
    /\ db = <<>>
    /\ clock = 0
    /\ added = <<>>
    /\ events = 0
    /\ failed_call = None

(* GeminiAgent.__init__ with a model of the allow-list *)
Init ==
    /\ model_name \in AVAILABLE_MODELS
    /\ SessionConstructed
    /\ NoConfig
    /\ NoManager

(* The locals of send_message and the record of its call exist from the   *)
(* start of a call until the next operation starts.                       *)
NoCall ==
    /\ i' = 0
    /\ prompt' = <<>>
    /\ response' = <<>>
    /\ arg' = <<>>
    /\ pre' = NoSnapshot
    /\ streams' = <<>>
    /\ sleeps' = <<>>
    /\ fragments' = <<>>
    /\ sum_prompt_tokens' = 0
    /\ sum_thoughts_tokens' = 0

(* GeminiAgent.reset_context *)
reset_context ==
    /\ pc = "idle"
    /\ context' = <<>>
    /\ added' = [k \in DOMAIN added |-> [added[k] EXCEPT !.reset = TRUE]]
    /\ ret' = Ret("reset_context", "ok", <<>>)
    /\ NoCall
    /\ UNCHANGED <<model_name, history, input_token_count, output_token_count,
                   pc, db, clock, events>>
    /\ failed_call' = IF IsNone(failed_call) THEN None
                    ELSE Some([Val(failed_call) EXCEPT !.reset = TRUE])
    /\ UNCHANGED <<config_vars, manager_vars>>

(* GeminiAgent.add_context *)
add_context(info_name, info) ==
    /\ pc = "idle"
    /\ events < MaxEvents
    /\ events' = events + 1
    /\ context' = Append(context, context_entry(info_name, info))
    /\ added' = Append(added, [entry |-> context_entry(info_name, info),
                               info_name |-> info_name, info |-> info,
                               reset |-> FALSE])
    /\ ret' = Ret("add_context", "ok", <<>>)
    /\ NoCall
    /\ UNCHANGED <<model_name, history, input_token_count, output_token_count,
                   pc, db, clock>>
    /\ UNCHANGED failed_call
    /\ UNCHANGED <<config_vars, manager_vars>>

(* send_message with reset_context called right after _join_context *)
send_message_resets_early(p) ==
    /\ pc = "idle"
    /\ events < MaxEvents
    /\ events' = events + 1
    /\ pre' = Snapshot
    /\ arg' = p
    /\ prompt' = _join_context(context, p)
    /\ context' = <<>>
    /\ i' = 1
    /\ response' = <<>>
    /\ streams' = <<_join_context(context, p)>>
    /\ sleeps' = <<>>
    /\ fragments' = << <<>> >>
    /\ sum_prompt_tokens' = 0
    /\ sum_thoughts_tokens' = 0
    /\ pc' = "streaming"
    /\ ret' = Ret("send_message", "running", <<>>)
    /\ UNCHANGED <<model_name, history, input_token_count,
                   output_token_count, db, clock, added>>
    /\ UNCHANGED failed_call
    /\ UNCHANGED <<config_vars, manager_vars>>

(* send_message up to the first send_message_stream call *)
send_message(p) ==
    /\ pc = "idle"
    /\ events < MaxEvents
    /\ events' = events + 1
    /\ pre' = Snapshot
    /\ arg' = p
    /\ prompt' = _join_context(context, p)
    /\ i' = 1
    /\ response' = <<>>
    /\ streams' = <<_join_context(context, p)>>
    /\ sleeps' = <<>>
    /\ fragments' = << <<>> >>
    /\ sum_prompt_tokens' = 0
    /\ sum_thoughts_tokens' = 0
    /\ pc' = "streaming"
    /\ ret' = Ret("send_message", "running", <<>>)
    /\ UNCHANGED <<model_name, context, history, input_token_count,
                   output_token_count, db, clock, added>>
    /\ UNCHANGED failed_call
    /\ UNCHANGED <<config_vars, manager_vars>>

(* one iteration of "for chunk in self.chat_obj.send_message_stream(prompt)": *)
(* a None token count makes the += raise TypeError, which the except clause *)
(* of the attempt catches                                                   *)
chunk_delivered(chunk) ==
    /\ pc = "streaming"
    /\ events < MaxEvents
    /\ events' = events + 1
    /\ fragments' = [fragments EXCEPT ![i] = Append(@, chunk.text)]
    /\ sum_prompt_tokens' = sum_prompt_tokens +
           (IF IsNone(chunk.prompt_token_count) THEN 0 ELSE Val(chunk.prompt_token_count))
    /\ sum_thoughts_tokens' = sum_thoughts_tokens +
           (IF IsNone(chunk.thoughts_token_count) THEN 0 ELSE Val(chunk.thoughts_token_count))
    /\ response' = response \o text_part(chunk)
    /\ IF IsNone(chunk.prompt_token_count)
       THEN /\ pc' = "except"
            /\ UNCHANGED <<input_token_count, output_token_count>>
       ELSE /\ input_token_count' =
                   add_input_tokens(input_token_count, Val(chunk.prompt_token_count))
            /\ IF IsNone(chunk.thoughts_token_count)
               THEN /\ pc' = "except"
                    /\ UNCHANGED output_token_count
               ELSE /\ output_token_count' =
                           add_output_tokens(output_token_count, Val(chunk.thoughts_token_count))
                    /\ pc' = "streaming"
    /\ UNCHANGED <<model_name, context, history, i, prompt, ret, pre, arg,
                   streams, sleeps, db, clock, added>>
    /\ UNCHANGED failed_call
    /\ UNCHANGED <<config_vars, manager_vars>>

(* send_message_stream, or the iteration over it, raises *)
stream_raises ==
    /\ pc = "streaming"
    /\ pc' = "except"
    /\ UNCHANGED <<model_name, context, history, input_token_count,
                   output_token_count, i, prompt, response, ret, pre, arg,
                   streams, sleeps, fragments, sum_prompt_tokens,
                   sum_thoughts_tokens, db, clock, added, events>>
    /\ UNCHANGED failed_call
    /\ UNCHANGED <<config_vars, manager_vars>>

(* the stream is exhausted, without the reset_context call *)
stream_exhausted_keeps_context ==
    /\ pc = "streaming"
    /\ history' = record_history(history, prompt, response, clock)
    /\ clock' = clock + 1
    /\ added' = <<>>
    /\ ret' = Ret("send_message", "ok", response)
    /\ pc' = "idle"
    /\ UNCHANGED <<model_name, context, input_token_count, output_token_count,
                   i, prompt, response, pre, arg, streams, sleeps, fragments,
                   sum_prompt_tokens, sum_thoughts_tokens, db, events>>
    /\ failed_call' = None
    /\ UNCHANGED <<config_vars, manager_vars>>

(* the stream is exhausted: record_history, reset_context, return response *)
stream_exhausted ==
    /\ pc = "streaming"
    /\ history' = record_history(history, prompt, response, clock)
    /\ clock' = clock + 1
    /\ context' = <<>>
    /\ added' = <<>>
    /\ ret' = Ret("send_message", "ok", response)
    /\ pc' = "idle"
    /\ UNCHANGED <<model_name, input_token_count, output_token_count, i, prompt,
                   response, pre, arg, streams, sleeps, fragments,
                   sum_prompt_tokens, sum_thoughts_tokens, db, events>>
    /\ failed_call' = None
    /\ UNCHANGED <<config_vars, manager_vars>>

(* the except clause of a loop that retries the last attempt instead of raising *)
except_clause_retries_forever ==
    /\ pc = "except"
    /\ sleeps' = IF i < LastAttempt THEN Append(sleeps, backoff(i)) ELSE sleeps
    /\ IF i < LastAttempt
       THEN /\ i' = i + 1
            /\ response' = <<>>
            /\ fragments' = Append(fragments, <<>>)
            /\ streams' = Append(streams, prompt)
            /\ pc' = "streaming"
            /\ UNCHANGED ret
       ELSE /\ pc' = "streaming"
            /\ response' = <<>>
            /\ UNCHANGED <<i, ret, fragments, streams>>
    /\ UNCHANGED <<model_name, context, history, input_token_count,
                   output_token_count, prompt, pre, arg, sum_prompt_tokens,
                   sum_thoughts_tokens, db, clock, added, events>>
    /\ UNCHANGED failed_call
    /\ UNCHANGED <<config_vars, manager_vars>>

(* the except clause, with reset_context called before raise RuntimeError *)
except_clause_resets_context ==
    /\ pc = "except"
    /\ sleeps' = Append(sleeps, backoff(i))
    /\ IF i < LastAttempt
       THEN /\ i' = i + 1
            /\ response' = <<>>
            /\ fragments' = Append(fragments, <<>>)
            /\ streams' = Append(streams, prompt)
            /\ pc' = "streaming"
            /\ UNCHANGED ret
       ELSE /\ pc' = "idle"
            /\ ret' = Ret("send_message", "RuntimeError", <<>>)
            /\ UNCHANGED <<i, response, fragments, streams>>
    /\ context' = IF i < LastAttempt THEN context ELSE <<>>
    /\ UNCHANGED <<model_name, history, input_token_count,
                   output_token_count, prompt, pre, arg, sum_prompt_tokens,
                   sum_thoughts_tokens, db, clock, added, events>>
    /\ failed_call' = IF i < LastAttempt THEN failed_call
                    ELSE Some([context |-> pre.context, n |-> Len(added), reset |-> FALSE])
    /\ UNCHANGED <<config_vars, manager_vars>>

(* the except clause, with response = "" moved out of the loop *)
except_clause_keeps_response ==
    /\ pc = "except"
    /\ sleeps' = Append(sleeps, backoff(i))
    /\ IF i < LastAttempt
       THEN /\ i' = i + 1
            /\ fragments' = Append(fragments, <<>>)
            /\ streams' = Append(streams, prompt)
            /\ pc' = "streaming"
            /\ UNCHANGED ret
       ELSE /\ pc' = "idle"
            /\ ret' = Ret("send_message", "RuntimeError", <<>>)
            /\ UNCHANGED <<i, fragments, streams>>
    /\ UNCHANGED <<model_name, context, history, input_token_count,
                   output_token_count, prompt, response, pre, arg,
                   sum_prompt_tokens, sum_thoughts_tokens, db, clock, added, events>>
    /\ failed_call' = IF i < LastAttempt THEN failed_call
                    ELSE Some([context |-> pre.context, n |-> Len(added), reset |-> FALSE])
    /\ UNCHANGED <<config_vars, manager_vars>>

(* the except clause: time.sleep(20 * 2 ** i), continue; after the loop,    *)
(* raise RuntimeError                                                       *)
except_clause ==
    /\ pc = "except"
    /\ sleeps' = Append(sleeps, backoff(i))
    /\ IF i < LastAttempt
       THEN /\ i' = i + 1
            /\ response' = <<>>
            /\ fragments' = Append(fragments, <<>>)
            /\ streams' = Append(streams, prompt)
            /\ pc' = "streaming"
            /\ UNCHANGED ret
       ELSE /\ pc' = "idle"
            /\ ret' = Ret("send_message", "RuntimeError", <<>>)
            /\ UNCHANGED <<i, response, fragments, streams>>
    /\ UNCHANGED <<model_name, context, history, input_token_count,
                   output_token_count, prompt, pre, arg, sum_prompt_tokens,
                   sum_thoughts_tokens, db, clock, added, events>>
    /\ failed_call' = IF i < LastAttempt THEN failed_call
                    ELSE Some([context |-> pre.context, n |-> Len(added), reset |-> FALSE])
    /\ UNCHANGED <<config_vars, manager_vars>>

(* dump_history with self.history = [] before the db_manager call *)
dump_history_clears_first(persist_ok) ==
    /\ pc = "idle"
    /\ IF persist_ok
       THEN /\ db' = db \o history
            /\ history' = <<>>
            /\ ret' = Ret("dump_history", "ok", <<>>)
       ELSE /\ ret' = Ret("dump_history", "error", <<>>)
            /\ history' = <<>>
            /\ UNCHANGED db
    /\ NoCall
    /\ UNCHANGED <<model_name, context, input_token_count, output_token_count,
                   pc, clock, added, events>>
    /\ UNCHANGED failed_call
    /\ UNCHANGED <<config_vars, manager_vars>>

(* dump_history without self.history = [] *)
dump_history_keeps_history(persist_ok) ==
    /\ pc = "idle"
    /\ IF persist_ok
       THEN /\ db' = db \o history
            /\ UNCHANGED history
            /\ ret' = Ret("dump_history", "ok", <<>>)
       ELSE /\ ret' = Ret("dump_history", "error", <<>>)
            /\ UNCHANGED <<db, history>>
    /\ NoCall
    /\ UNCHANGED <<model_name, context, input_token_count, output_token_count,
                   pc, clock, added, events>>
    /\ UNCHANGED failed_call
    /\ UNCHANGED <<config_vars, manager_vars>>

(* GeminiAgent.dump_history: db_manager.dump_history commits the rows on    *)
(* close(); when it raises nothing is committed and self.history = [] is    *)
(* not reached                                                              *)
dump_history(persist_ok) ==
    /\ pc = "idle"
    /\ IF persist_ok
       THEN /\ db' = db \o history
            /\ history' = <<>>
            /\ ret' = Ret("dump_history", "ok", <<>>)
       ELSE /\ ret' = Ret("dump_history", "error", <<>>)
            /\ UNCHANGED <<db, history>>
    /\ NoCall
    /\ UNCHANGED <<model_name, context, input_token_count, output_token_count,
                   pc, clock, added, events>>
    /\ UNCHANGED failed_call
    /\ UNCHANGED <<config_vars, manager_vars>>

(* the pricing table without the entry of gemini-2.5-flash-lite *)
pricing_without_lite(m) ==
    CASE m = "gemini-3-pro-preview" -> Some([input |-> 20, output |-> 120])
      [] m = "gemini-2.5-flash" -> Some([input |-> 3, output |-> 15])
      [] OTHER -> None

(* the pricing table of calculate_cost, in 1e-7 USD per token *)
pricing(m) ==
    CASE m = "gemini-3-pro-preview" -> Some([input |-> 20, output |-> 120])
      [] m = "gemini-2.5-flash" -> Some([input |-> 3, output |-> 15])
      [] m = "gemini-2.5-flash-lite" -> Some([input |-> 1, output |-> 4])
      [] OTHER -> None

(* calculate_cost with both token counters set to 0 after the cost is computed *)
calculate_cost_resets_counters ==
    /\ pc = "idle"
    /\ LET model_pricing == pricing(model_name)
       IN  IF IsNone(model_pricing)
           THEN ret' = Ret("calculate_cost", "ValueError", <<>>)
           ELSE ret' = Ret("calculate_cost", "ok",
                           <<input_token_count * Val(model_pricing).input
                             + output_token_count * Val(model_pricing).output>>)
    /\ NoCall
    /\ input_token_count' = 0
    /\ output_token_count' = 0
    /\ UNCHANGED <<model_name, context, history, pc, db, clock, added, events>>
    /\ UNCHANGED failed_call
    /\ UNCHANGED <<config_vars, manager_vars>>

(* GeminiAgent.calculate_cost *)
calculate_cost ==
    /\ pc = "idle"
    /\ LET model_pricing == pricing(model_name)
       IN  IF IsNone(model_pricing)
           THEN ret' = Ret("calculate_cost", "ValueError", <<>>)
           ELSE ret' = Ret("calculate_cost", "ok",
                           <<input_token_count * Val(model_pricing).input
                             + output_token_count * Val(model_pricing).output>>)
    /\ NoCall
    /\ UNCHANGED <<model_name, context, history, input_token_count,
                   output_token_count, pc, db, clock, added, events>>
    /\ UNCHANGED failed_call
    /\ UNCHANGED <<config_vars, manager_vars>>

Next ==
    \/ reset_context
    \/ \E info_name \in Labels, info \in Infos : add_context(info_name, info)
    \/ \E p \in Prompts : send_message(p)
    \/ \E chunk \in Chunks : chunk_delivered(chunk)
    \/ stream_raises
    \/ stream_exhausted
    \/ except_clause
    \/ \E persist_ok \in BOOLEAN : dump_history(persist_ok)
    \/ calculate_cost

Spec == Init /\ [][Next]_vars

(* add_context calls followed by the prompt assembly of send_message *)
NextJoin ==
    \/ \E info_name \in JoinLabels, info \in JoinInfos : add_context(info_name, info)
    \/ \E p \in JoinPrompts : send_message(p)

SpecJoin == Init /\ [][NextJoin]_vars

(* send_message calls alone *)
NextSend ==
    \/ \E p \in Prompts : send_message(p)
    \/ \E chunk \in Chunks : chunk_delivered(chunk)
    \/ stream_raises
    \/ stream_exhausted
    \/ except_clause

(* A stream is finite: an attempt that is streaming sees its stream       *)
(* exhausted or raising; time.sleep returns and the except clause goes on. *)
SpecSend ==
    /\ Init
    /\ [][NextSend]_vars
    /\ WF_vars(stream_raises \/ stream_exhausted)
    /\ WF_vars(except_clause)

----------------------------------------------------------------------------
(* AIManager and the construction of agents *)

SUPPORTED_AI == {"gemini"}

AINames == {"gemini", "gpt"}
AgentNames == {"j", "k"}
ManagerModels == {"gemini-2.5-flash", "gemini-2.5-flash-lite", "gpt-4"}

(* the config argument of a construction: None, a valid dict, invalid dicts *)
ManagerConfigs ==
    {None, Some(with_option(<<>>, "top_k", PyInt(40))),
     Some(with_option(<<>>, "top_k", PyInt(-1)))}

(* the agent GeminiAgent.__init__ leaves, chat being its channel *)
NewAgent(name, mname, chat) ==
    [name |-> name, model_name |-> mname, context |-> <<>>, history |-> <<>>,
     input_token_count |-> 0, output_token_count |-> 0, chat_obj |-> chat]

(* what a constructor call did: its outcome and the chats.create calls it made *)
Constructed(status, value, opened) ==
    [status |-> status, value |-> value, opened |-> opened]

(* GeminiAgent.__init__ without the check of model_name *)
GeminiAgent_any_model(name, mname, cfg) ==
    IF IsNone(cfg)
    THEN Constructed("ok", NewAgent(name, mname, [model |-> mname, config |-> None]), 1)
    ELSE LET p == _parse_config(Val(cfg)) IN
         IF p.status # "ok"
         THEN Constructed("ValueError", p.value, 0)
         ELSE Constructed("ok",
                          NewAgent(name, mname, [model |-> mname, config |-> Some(p.value)]), 1)

(* GeminiAgent.__init__ with chats.create called before _parse_config *)
GeminiAgent_opens_first(name, mname, cfg) ==
    IF mname \notin AVAILABLE_MODELS
    THEN Constructed("ValueError", <<mname, " is not valid!">>, 0)
    ELSE IF IsNone(cfg)
    THEN Constructed("ok", NewAgent(name, mname, [model |-> mname, config |-> None]), 1)
    ELSE LET p == _parse_config(Val(cfg)) IN
         IF p.status # "ok"
         THEN Constructed("ValueError", p.value, 1)
         ELSE Constructed("ok",
                          NewAgent(name, mname, [model |-> mname, config |-> Some(p.value)]), 1)

(* GeminiAgent.__init__: the model check, then _parse_config, then chats.create *)
GeminiAgent(name, mname, cfg) ==
    IF mname \notin AVAILABLE_MODELS
    THEN Constructed("ValueError", <<mname, " is not valid!">>, 0)
    ELSE IF IsNone(cfg)
    THEN Constructed("ok", NewAgent(name, mname, [model |-> mname, config |-> None]), 1)
    ELSE LET p == _parse_config(Val(cfg)) IN
         IF p.status # "ok"
         THEN Constructed("ValueError", p.value, 0)
         ELSE Constructed("ok",
                          NewAgent(name, mname, [model |-> mname, config |-> Some(p.value)]), 1)

(* a dict without the key *)
without(d, key) ==
    IF DOMAIN d \ {key} = {} THEN <<>>
    ELSE [k \in DOMAIN d \ {key} |-> d[k]]

(* GeminiAgent.add_context on the agent a *)
agent_add_context(a, info_name, info) ==
    [a EXCEPT !.context = Append(@, context_entry(info_name, info))]

RECURSIVE consume(_, _)
(* the body of "for chunk in send_message_stream(prompt)" over the chunks  *)
(* of one stream; a None token count makes the += raise                    *)
consume(chunks, st) ==
    IF chunks = <<>> THEN st
    ELSE LET chunk == Head(chunks)
             r == st.response \o text_part(chunk)
         IN  IF IsNone(chunk.prompt_token_count)
             THEN [st EXCEPT !.response = r, !.raised = TRUE]
             ELSE IF IsNone(chunk.thoughts_token_count)
             THEN [st EXCEPT !.response = r, !.raised = TRUE,
                             !.input = add_input_tokens(@, Val(chunk.prompt_token_count))]
             ELSE consume(Tail(chunks),
                          [st EXCEPT !.response = r,
                                     !.input = add_input_tokens(@, Val(chunk.prompt_token_count)),
                                     !.output = add_output_tokens(@, Val(chunk.thoughts_token_count))])

RECURSIVE attempt_loop(_, _, _, _, _)
(* "for i in range(1, 4)" of send_message from attempt n on, streams[n]    *)
(* being what the n-th send_message_stream call delivers                   *)
attempt_loop(a, p, streams_given, n, now) ==
    IF n > LastAttempt
    THEN [status |-> "RuntimeError", value |-> <<>>, agent |-> a]
    ELSE LET st == consume(streams_given[n].chunks,
                           [response |-> <<>>, input |-> a.input_token_count,
                            output |-> a.output_token_count, raised |-> FALSE])
             b == [a EXCEPT !.input_token_count = st.input,
                            !.output_token_count = st.output]
         IN  IF st.raised \/ streams_given[n].raises
             THEN attempt_loop(b, p, streams_given, n + 1, now)
             ELSE [status |-> "ok", value |-> st.response,
                   agent |-> [b EXCEPT
                       !.history = Append(@, [timestamp |-> now, model |-> a.model_name,
                                              name |-> a.name, prompt |-> p,
                                              response |-> st.response]),
                       !.context = <<>>]]

(* GeminiAgent.send_message on the agent a *)
agent_send_message(a, p, streams_given, now) ==
    attempt_loop(a, _join_context(a.context, p), streams_given, 1, now)

(* what one send_message_stream call delivers: its chunks, and whether it *)
(* raises after them                                                       *)
Stream(chunks, raises) == [chunks |-> chunks, raises |-> raises]

(* the three streams a send_message call may open *)
SendOutcomes ==
    {<<Stream(<<Chunk(Some(<<"a">>), Some(1), Some(1))>>, FALSE),
       Stream(<<>>, TRUE), Stream(<<>>, TRUE)>>,
     <<Stream(<<Chunk(Some(<<"b">>), Some(1), Some(0))>>, TRUE),
       Stream(<<Chunk(None, Some(0), Some(1))>>, FALSE), Stream(<<>>, TRUE)>>,
     <<Stream(<<>>, TRUE), Stream(<<>>, TRUE), Stream(<<>>, TRUE)>>}

(* genai.Client(api_key=api_key) *)
Client(api_key) == [api_key |-> api_key]

(* the values of GEMINI_API_KEY in the environment *)
ApiKeys == {None, Some("k1"), Some("k2")}

(* AIManager.create_client overwriting the client of an AI that has one *)
create_client_replaces(ai_name, api_key) ==
    LET args == [ai_name |-> ai_name] IN
    /\ IF ai_name \notin SUPPORTED_AI
       THEN /\ mret' = MRet("create_client", args, "ValueError", <<ai_name, " is not supported!">>)
            /\ UNCHANGED client_dict
       ELSE IF IsNone(api_key)
       THEN /\ mret' = MRet("create_client", args, "ValueError",
                            <<"GEMINI_API_KEY not found in environment variables.">>)
            /\ UNCHANGED client_dict
       ELSE /\ mret' = MRet("create_client", args, "ok", <<>>)
            /\ client_dict' = with_option(client_dict, ai_name, Client(Val(api_key)))
    /\ UNCHANGED <<agent_dict, agent_keys, chats_created, mdb, mclock, mevents>>
    /\ UNCHANGED <<session_vars, config_vars>>

(* AIManager.create_client; create_gemini_client raises when the          *)
(* environment holds no GEMINI_API_KEY                                    *)
create_client(ai_name, api_key) ==
    LET args == [ai_name |-> ai_name] IN
    /\ IF ai_name \notin SUPPORTED_AI
       THEN /\ mret' = MRet("create_client", args, "ValueError", <<ai_name, " is not supported!">>)
            /\ UNCHANGED client_dict
       ELSE IF ai_name \in DOMAIN client_dict
       THEN /\ mret' = MRet("create_client", args, "ValueError",
                            <<ai_name, "'s client has been created">>)
            /\ UNCHANGED client_dict
       ELSE IF IsNone(api_key)
       THEN /\ mret' = MRet("create_client", args, "ValueError",
                            <<"GEMINI_API_KEY not found in environment variables.">>)
            /\ UNCHANGED client_dict
       ELSE /\ mret' = MRet("create_client", args, "ok", <<>>)
            /\ client_dict' = with_option(client_dict, ai_name, Client(Val(api_key)))
    /\ UNCHANGED <<agent_dict, agent_keys, chats_created, mdb, mclock, mevents>>
    /\ UNCHANGED <<session_vars, config_vars>>

(* AIManager.close_client *)
close_client(ai_name) ==
    LET args == [ai_name |-> ai_name] IN
    /\ IF ai_name \notin SUPPORTED_AI
       THEN /\ mret' = MRet("close_client", args, "ValueError", <<ai_name, " is not supported!">>)
            /\ UNCHANGED client_dict
       ELSE IF ai_name \notin DOMAIN client_dict
       THEN /\ mret' = MRet("close_client", args, "ValueError",
                            <<ai_name, "'s client doesn't exist">>)
            /\ UNCHANGED client_dict
       ELSE /\ mret' = MRet("close_client", args, "ok", <<>>)
            /\ client_dict' = without(client_dict, ai_name)
    /\ UNCHANGED <<agent_dict, agent_keys, chats_created, mdb, mclock, mevents>>
    /\ UNCHANGED <<session_vars, config_vars>>

(* AIManager.create_agent *)
create_agent(ai_name, agent_name, model, cfg) ==
    LET args == [ai_name |-> ai_name, agent_name |-> agent_name, model |-> model,
                 config |-> cfg]
        made == GeminiAgent(agent_name, model, cfg)
    IN
    /\ chats_created + mevents < MaxEvents
    /\ IF ai_name \notin SUPPORTED_AI
       THEN /\ mret' = MRet("create_agent", args, "ValueError", <<ai_name, " is not supported!">>)
            /\ UNCHANGED <<agent_dict, agent_keys, chats_created>>
       ELSE IF ai_name \notin DOMAIN client_dict
       THEN /\ mret' = MRet("create_agent", args, "ValueError",
                            <<ai_name, "'s client doesn't exist">>)
            /\ UNCHANGED <<agent_dict, agent_keys, chats_created>>
       ELSE IF agent_name \in DOMAIN agent_dict
       THEN /\ mret' = MRet("create_agent", args, "ValueError", <<agent_name, " agent exists">>)
            /\ UNCHANGED <<agent_dict, agent_keys, chats_created>>
       ELSE /\ chats_created' = chats_created + made.opened
            /\ IF made.status = "ok"
               THEN /\ agent_dict' = with_option(agent_dict, agent_name, made.value)
                    /\ agent_keys' = Append(agent_keys, agent_name)
                    /\ mret' = MRet("create_agent", args, "ok", <<>>)
               ELSE /\ mret' = MRet("create_agent", args, made.status, made.value)
                    /\ UNCHANGED <<agent_dict, agent_keys>>
    /\ UNCHANGED <<client_dict, mdb, mclock, mevents>>
    /\ UNCHANGED <<session_vars, config_vars>>

(* AIManager.delete_agent: _check_ai_agent_existence raises for a registered *)
(* name, and del raises KeyError for any other                               *)
delete_agent(name) ==
    LET args == [name |-> name] IN
    /\ IF name \in DOMAIN agent_dict
       THEN mret' = MRet("delete_agent", args, "ValueError", <<name, " agent exists">>)
       ELSE mret' = MRet("delete_agent", args, "KeyError", <<name>>)
    /\ UNCHANGED <<client_dict, agent_dict, agent_keys, chats_created, mdb, mclock, mevents>>
    /\ UNCHANGED <<session_vars, config_vars>>

(* gm.GeminiAgent(...) called by a caller that holds a client *)
construct(name, model, cfg) ==
    LET args == [agent_name |-> name, model |-> model, config |-> cfg]
        made == GeminiAgent(name, model, cfg)
    IN
    /\ chats_created + mevents < MaxEvents
    /\ chats_created' = chats_created + made.opened
    /\ mret' = MRet("GeminiAgent", args, made.status, made.value)
    /\ UNCHANGED <<client_dict, agent_dict, agent_keys, mdb, mclock, mevents>>
    /\ UNCHANGED <<session_vars, config_vars>>

(* AIManager.add_context *)
manager_add_context(agent_name, context_name, context_info) ==
    LET args == [agent_name |-> agent_name] IN
    /\ chats_created + mevents < MaxEvents
    /\ IF agent_name \notin DOMAIN agent_dict
       THEN /\ mret' = MRet("add_context", args, "ValueError",
                            <<agent_name, " agent doesn't exist">>)
            /\ UNCHANGED <<agent_dict, mevents>>
       ELSE /\ mret' = MRet("add_context", args, "ok", <<>>)
            /\ mevents' = mevents + 1
            /\ agent_dict' = [agent_dict EXCEPT ![agent_name] =
                                  agent_add_context(@, context_name, context_info)]
    /\ UNCHANGED <<client_dict, agent_keys, chats_created, mdb, mclock>>
    /\ UNCHANGED <<session_vars, config_vars>>

(* AIManager.send_message *)
manager_send_message(agent_name, p, streams_given) ==
    LET args == [agent_name |-> agent_name] IN
    /\ chats_created + mevents < MaxEvents
    /\ IF agent_name \notin DOMAIN agent_dict
       THEN /\ mret' = MRet("send_message", args, "ValueError",
                            <<agent_name, " agent doesn't exist">>)
            /\ UNCHANGED <<agent_dict, mevents, mclock>>
       ELSE LET sent == agent_send_message(agent_dict[agent_name], p, streams_given, mclock)
            IN  /\ mret' = MRet("send_message", args, sent.status, sent.value)
                /\ mevents' = mevents + 1
                /\ mclock' = IF sent.status = "ok" THEN mclock + 1 ELSE mclock
                /\ agent_dict' = [agent_dict EXCEPT ![agent_name] = sent.agent]
    /\ UNCHANGED <<client_dict, agent_keys, chats_created, mdb>>
    /\ UNCHANGED <<session_vars, config_vars>>

(* AIManager.dump_agent_history with self.history = [] also when the      *)
(* persistence raised                                                     *)
dump_agent_history_clears_anyway(agent_name, persist_ok) ==
    LET args == [agent_name |-> agent_name] IN
    /\ IF agent_name \notin DOMAIN agent_dict
       THEN /\ mret' = MRet("dump_agent_history", args, "ValueError",
                            <<agent_name, " agent doesn't exist">>)
            /\ UNCHANGED <<agent_dict, mdb>>
       ELSE IF ~persist_ok
       THEN /\ mret' = MRet("dump_agent_history", args, "error", <<>>)
            /\ agent_dict' = [agent_dict EXCEPT ![agent_name].history = <<>>]
            /\ UNCHANGED mdb
       ELSE /\ mret' = MRet("dump_agent_history", args, "ok", <<>>)
            /\ mdb' = mdb \o agent_dict[agent_name].history
            /\ agent_dict' = [agent_dict EXCEPT ![agent_name].history = <<>>]
    /\ UNCHANGED <<client_dict, agent_keys, chats_created, mclock, mevents>>
    /\ UNCHANGED <<session_vars, config_vars>>

(* AIManager.dump_agent_history: GeminiAgent.dump_history of the agent *)
dump_agent_history(agent_name, persist_ok) ==
    LET args == [agent_name |-> agent_name] IN
    /\ IF agent_name \notin DOMAIN agent_dict
       THEN /\ mret' = MRet("dump_agent_history", args, "ValueError",
                            <<agent_name, " agent doesn't exist">>)
            /\ UNCHANGED <<agent_dict, mdb>>
       ELSE IF ~persist_ok
       THEN /\ mret' = MRet("dump_agent_history", args, "error", <<>>)
            /\ UNCHANGED <<agent_dict, mdb>>
       ELSE /\ mret' = MRet("dump_agent_history", args, "ok", <<>>)
            /\ mdb' = mdb \o agent_dict[agent_name].history
            /\ agent_dict' = [agent_dict EXCEPT ![agent_name].history = <<>>]
    /\ UNCHANGED <<client_dict, agent_keys, chats_created, mclock, mevents>>
    /\ UNCHANGED <<session_vars, config_vars>>

RECURSIVE histories(_, _)
(* the histories of the agents keys[1..n], one after the other *)
histories(keys, n) ==
    IF n = 0 THEN <<>> ELSE histories(keys, n - 1) \o agent_dict[keys[n]].history

(* every agent has its history cleared, whichever persistence raised *)
flushed_all(fail_at) == Len(agent_keys)

(* the number of agents whose self.history = [] is reached when the       *)
(* persistence of the fail_at-th agent raises (0: none raises)            *)
flushed(fail_at) == IF fail_at = 0 THEN Len(agent_keys) ELSE fail_at - 1

(* AIManager.dump_all_histories: dump_agent_history for every key of      *)
(* agent_dict in the order of the dict, until one raises                  *)
dump_all_histories(fail_at) ==
    LET args == [fail_at |-> fail_at]
        persisted == IF fail_at = 0 THEN Len(agent_keys) ELSE fail_at - 1
        cleared == {agent_keys[n] : n \in 1..flushed(fail_at)}
    IN
    /\ fail_at <= Len(agent_keys)
    /\ mret' = MRet("dump_all_histories", args, IF fail_at = 0 THEN "ok" ELSE "error", <<>>)
    /\ mdb' = mdb \o histories(agent_keys, persisted)
    /\ agent_dict' = [k \in DOMAIN agent_dict |->
                          IF k \in cleared THEN [agent_dict[k] EXCEPT !.history = <<>>]
                          ELSE agent_dict[k]]
    /\ UNCHANGED <<client_dict, agent_keys, chats_created, mclock, mevents>>
    /\ UNCHANGED <<session_vars, config_vars>>

InitManager ==
    /\ model_name = "gemini-2.5-flash"
    /\ SessionConstructed
    /\ NoConfig
    /\ NoManager

NextManager ==
    \/ \E ai_name \in AINames, api_key \in ApiKeys : create_client(ai_name, api_key)
    \/ \E ai_name \in AINames : close_client(ai_name)
    \/ \E ai_name \in AINames, agent_name \in AgentNames, model \in ManagerModels,
          cfg \in ManagerConfigs : create_agent(ai_name, agent_name, model, cfg)
    \/ \E name \in AgentNames : delete_agent(name)
    \/ \E name \in AgentNames, model \in ManagerModels, cfg \in ManagerConfigs :
          construct(name, model, cfg)

SpecManager == InitManager /\ [][NextManager]_vars

(* the operations of AIManager on its registries and on registered agents, *)
(* every agent being created with the same model and without a config     *)
NextAgents ==
    \/ \E api_key \in ApiKeys \ {None} : create_client("gemini", api_key)
    \/ close_client("gemini")
    \/ \E agent_name \in AgentNames :
          create_agent("gemini", agent_name, "gemini-2.5-flash", None)
    \/ \E name \in AgentNames : delete_agent(name)
    \/ \E agent_name \in AgentNames : manager_add_context(agent_name, <<"A">>, <<"x">>)
    \/ \E agent_name \in AgentNames, streams_given \in SendOutcomes :
          manager_send_message(agent_name, <<"h", "i">>, streams_given)
    \/ \E agent_name \in AgentNames, persist_ok \in BOOLEAN :
          dump_agent_history(agent_name, persist_ok)
    \/ \E fail_at \in 0..Cardinality(AgentNames) : dump_all_histories(fail_at)

SpecAgents == InitManager /\ [][NextAgents]_vars

----------------------------------------------------------------------------
(* a config dict of the caller, before _parse_config is called on it *)
InitConfig ==
    /\ model_name = "gemini-2.5-flash"
    /\ SessionConstructed
    /\ \E keys \in KeySets : config \in ConfigsOver(keys)
    /\ parsed = None
    /\ NoManager

(* GeminiAgent._parse_config(config) *)
parse_config ==
    /\ IsNone(parsed)
    /\ parsed' = Some(_parse_config(config))
    /\ UNCHANGED <<session_vars, config, manager_vars>>

NextConfig == parse_config

SpecConfig == InitConfig /\ [][NextConfig]_vars

----------------------------------------------------------------------------
(* Properties of send_message *)

(* send_message returned a response / raised RuntimeError, and no other    *)
(* operation has started since                                             *)
SendReturned == pc = "idle" /\ ret.op = "send_message" /\ ret.status = "ok"
SendFailed == pc = "idle" /\ ret.op = "send_message" /\ ret.status = "RuntimeError"

(* the except clause runs once for every attempt that raised *)
Raised == Len(sleeps) + (IF pc = "except" THEN 1 ELSE 0)

C2_FailureKeepsContextAndHistory ==
    SendFailed => context = pre.context /\ history = pre.history

C2_Witness ==
    /\ SendFailed
    /\ Len(pre.context) = 2
    /\ Len(pre.history) = 1

(* C3: one send_message call makes at most 3 streaming attempts; it raises *)
(* RuntimeError exactly when 3 attempts raised; when it returns, the last  *)
(* attempt is the only one that did not raise.                             *)
C3_AtMostThreeAttempts ==
    /\ Len(streams) <= 3
    /\ Raised <= Len(streams)
    /\ (pc = "idle" /\ ret.op = "send_message") =>
           (ret.status = "RuntimeError" <=> Raised = 3)
    /\ SendReturned => Len(streams) = Raised + 1

C3_Witness == SendFailed /\ Len(streams) = 3

(* C4: a backoff sleep is always followed by another streaming attempt, so *)
(* a call has slept fewer times than it has opened streams.                *)
C4_SleepOnlyBeforeRetry ==
    streams # <<>> => Len(sleeps) < Len(streams)

RECURSIVE concat_texts(_)
concat_texts(texts) ==
    IF texts = <<>> THEN <<>>
    ELSE (IF IsNone(Head(texts)) THEN <<>> ELSE Val(Head(texts)))
         \o concat_texts(Tail(texts))

(* C6: every attempt of a call sends the prompt the first attempt sent, the *)
(* response buffer holds the fragments of the current attempt only, in     *)
(* delivery order, and the returned response is that of the last attempt.  *)
C6_RetrySamePromptFreshBuffer ==
    /\ \A k \in DOMAIN streams : streams[k] = streams[1]
    /\ pc = "streaming" => response = concat_texts(fragments[i])
    /\ SendReturned => ret.value = concat_texts(fragments[Len(fragments)])

C6_Witness ==
    /\ SendReturned
    /\ Len(fragments) = 2
    /\ fragments[1] # <<>>
    /\ ret.value = <<"a", "b">>

(* C7: output_token_count after a call is its value before the call plus   *)
(* the thoughts token counts of the delivered chunks; stated for calls that *)
(* return at the first attempt, where every chunk reported both counts.    *)
C7_OutputRunningSum ==
    (SendReturned /\ sleeps = <<>>) =>
        output_token_count = pre.output_token_count + sum_thoughts_tokens

(* C8: during and after a call, input_token_count is its value before the  *)
(* call plus the prompt token counts of every chunk delivered in the call, *)
(* failed attempts included.                                               *)
C8_InputRunningSum ==
    ret.op = "send_message" =>
        input_token_count = pre.input_token_count + sum_prompt_tokens

C8_Witness ==
    /\ SendReturned
    /\ Len(fragments) = 2
    /\ fragments[1] # <<>>
    /\ sum_prompt_tokens = 2

(* C9: no step decreases input_token_count or output_token_count.          *)
C9_CountersNeverDecrease ==
    [][/\ input_token_count' >= input_token_count
       /\ output_token_count' >= output_token_count]_vars

C9_Witness ==
    /\ Len(sleeps) >= 1
    /\ input_token_count >= 2
    /\ output_token_count >= 3

AddedEntries == [k \in DOMAIN added |-> added[k].entry]
KeptEntries == LET kept == SelectSeq(added, LAMBDA e : ~e.reset)
               IN  [k \in DOMAIN kept |-> kept[k].entry]

(* C10 as claimed: the prompt assembled by a send holds exactly the entries *)
(* added since the last send that returned, in insertion order.            *)
C10_AllAddedSinceLastSend ==
    pc # "idle" => prompt = _join_context(AddedEntries, arg)

(* C10: the prompt assembled by a send holds exactly the entries added     *)
(* since the last send that returned and not followed by a reset_context   *)
(* call, in insertion order.                                               *)
C10_AddedSinceSendOrReset ==
    pc # "idle" => prompt = _join_context(KeptEntries, arg)

C10_Witness ==
    /\ pc = "streaming"
    /\ Len(history) = 1
    /\ Len(history[1].prompt) > 3
    /\ added # <<>>
    /\ \A k \in DOMAIN added : ~added[k].reset

----------------------------------------------------------------------------
(* Properties of the prompt assembly *)

(* C11: with an empty context the prompt sent is the caller's prompt,      *)
(* unwrapped and untrimmed, the empty prompt included.                     *)
C11_EmptyContextPromptUnchanged ==
    (pc = "streaming" /\ pre.context = <<>>) => prompt = arg /\ streams = <<arg>>

C11_Witness ==
    /\ pc = "streaming"
    /\ pre.context = <<>>
    /\ arg = <<" ", "q", NL>>
    /\ prompt = <<" ", "q", NL>>

RECURSIVE RenderedLines(_)
RenderedLines(entries) ==
    IF entries = <<>> THEN <<>>
    ELSE <<"[">> \o Head(entries).info_name \o <<"]", " ">> \o Head(entries).info
         \o (IF Len(entries) = 1 THEN <<>> ELSE <<NL>> \o RenderedLines(Tail(entries)))

ExamplePrompt ==
    <<"C", "o", "n", "t", "e", "x", "t", ":", NL,
      "[", "A", "]", " ", "x", NL,
      "[", "B", "]", " ", "y", NL,
      NL,
      "U", "s", "e", "r", " ", "Q", "u", "e", "r", "y", ":", NL,
      "h", "i">>

(* C12: with entries (l1,t1)..(ln,tn), n >= 1, the prompt sent is          *)
(* "Context:\n", the lines "[li] ti" in insertion order, "\n\nUser Query:\n" *)
(* and the caller's prompt, trimmed at both ends; entries (A,x), (B,y) and *)
(* prompt "hi" give the prompt of the example.                             *)
C12_ContextPromptLayout ==
    (pc = "streaming" /\ added # <<>>) =>
        /\ prompt = strip(<<"C", "o", "n", "t", "e", "x", "t", ":", NL>>
                          \o RenderedLines(added)
                          \o <<NL, NL, "U", "s", "e", "r", " ", "Q", "u", "e", "r", "y", ":", NL>>
                          \o arg)
        /\ ( /\ Len(added) = 2
             /\ added[1].info_name = <<"A">> /\ added[1].info = <<"x">>
             /\ added[2].info_name = <<"B">> /\ added[2].info = <<"y">>
             /\ arg = <<"h", "i">> ) => prompt = ExamplePrompt

C12_Witness == pc = "streaming" /\ prompt = ExamplePrompt

----------------------------------------------------------------------------
(* Properties of dump_history and of a send after a failed send *)

(* C13: a dump_history call whose persistence fails leaves history as it   *)
(* was; one whose persistence succeeds commits the records and leaves      *)
(* history empty.                                                          *)
C13_FlushThenClear ==
    [][/\ (ret'.op = "dump_history" /\ ret'.status = "error") =>
              history' = history
       /\ (ret'.op = "dump_history" /\ ret'.status = "ok") =>
              history' = <<>> /\ db' = db \o history]_vars

C13_Witness ==
    /\ ret.op = "dump_history"
    /\ ret.status = "error"
    /\ Len(history) = 2

(* entries added after the first n of added *)
AddedAfter(n) == [k \in 1..(Len(added) - n) |-> added[n + k].entry]

(* C14 as claimed: the prompt of a send after a failed send holds the       *)
(* context pending at the failed call followed by the entries added since. *)
C14_PendingContextResent ==
    (pc = "streaming" /\ ~IsNone(failed_call)) =>
        prompt = _join_context(Val(failed_call).context
                               \o AddedAfter(Val(failed_call).n), arg)

(* C14: after a send failed, a send whose stream is exhausted returns a    *)
(* response, and unless reset_context was called since the failed call the *)
(* prompt it sent and recorded holds the context pending at the failed     *)
(* call followed by the entries added since.                               *)
C14_UsableAfterFailure ==
    [][(pc = "streaming" /\ pc' = "idle" /\ ~IsNone(failed_call)) =>
           /\ ret'.op = "send_message" /\ ret'.status = "ok"
           /\ Len(history') = Len(history) + 1
           /\ ~Val(failed_call).reset =>
                  /\ prompt = _join_context(Val(failed_call).context
                                            \o AddedAfter(Val(failed_call).n), arg)
                  /\ history'[Len(history')].prompt = prompt]_vars

C14_Witness ==
    /\ pc = "streaming"
    /\ ~IsNone(failed_call)
    /\ ~Val(failed_call).reset
    /\ Val(failed_call).context # <<>>
    /\ Len(added) > Val(failed_call).n

----------------------------------------------------------------------------
(* Properties of the construction of agents *)

Constructing == {"create_agent", "GeminiAgent"}

(* C15: a construction with a model_name outside the allow-list raises      *)
(* ValueError, makes no chats.create call, yields no agent, and through    *)
(* create_agent leaves agent_dict as it was.                               *)
C15_InvalidModelFailsBeforeChannel ==
    [][(mret'.op \in Constructing /\ mret'.args.model \notin AVAILABLE_MODELS) =>
           /\ mret'.status = "ValueError"
           /\ chats_created' = chats_created
           /\ agent_dict' = agent_dict]_vars

C15_Witness ==
    /\ mret.op = "create_agent"
    /\ mret.args.model \notin AVAILABLE_MODELS
    /\ mret.args.ai_name \in DOMAIN client_dict
    /\ mret.args.agent_name \notin DOMAIN agent_dict
    /\ mret.status = "ValueError"
    /\ mret.value = <<mret.args.model, " is not valid!">>

(* C16: a construction given a config that _parse_config rejects raises     *)
(* ValueError without a chats.create call; one given a config that         *)
(* _parse_config accepts makes one chats.create call.                      *)
C16_ConfigValidatedBeforeChannel ==
    [][(/\ mret'.op \in Constructing
        /\ ~IsNone(mret'.args.config)
        /\ mret'.args.model \in AVAILABLE_MODELS) =>
           LET p == _parse_config(Val(mret'.args.config)) IN
           /\ p.status # "ok" =>
                  /\ mret'.status = "ValueError"
                  /\ chats_created' = chats_created
                  /\ agent_dict' = agent_dict
           /\ (p.status = "ok" /\ mret'.status = "ok") =>
                  chats_created' = chats_created + 1]_vars

C16_Witness ==
    /\ mret.op = "GeminiAgent"
    /\ mret.args.model \in AVAILABLE_MODELS
    /\ ~IsNone(mret.args.config)
    /\ mret.status = "ValueError"
    /\ mret.value = <<"top_k", " must be a non-negative integer">>

----------------------------------------------------------------------------
(* Properties of _parse_config *)

Parsed == ~IsNone(parsed)
ParsedStatus == Val(parsed).status
Range(seq) == {seq[n] : n \in 1..Len(seq)}

(* options of a dict whose value is not None *)
PresentOptions(cfg) == {k \in DOMAIN cfg : cfg[k].t # "NoneType"}

Tenths(x) == IF x.t = "int" THEN 10 * x.n ELSE x.n
IsNumber(x) == x.t \in {"int", "float"}
IsStrings(x) == x.t = "list" /\ \A n \in 1..Len(x.l) : x.l[n].t = "str"

(* the rule of the option key, stated on the dict cfg *)
MeetsRule(cfg, key) ==
    LET x == cfg[key] IN
    CASE key \in {"system_instruction", "response_mime_type"} -> x.t = "str"
      [] key = "tools" -> IsStrings(x)
      [] key = "tool_config_mode" -> x.t = "str" /\ x.s \in {"AUTO", "ANY", "NONE"}
      [] key = "allowed_tool_for_config" ->
             /\ IsStrings(x)
             /\ ("tools" \in PresentOptions(cfg) /\ IsStrings(cfg["tools"])) =>
                    \A n \in 1..Len(x.l) : x.l[n] \in Range(cfg["tools"].l)
      [] key = "safety_setting" ->
             /\ x.t = "dict"
             /\ \A n \in 1..Len(x.d) : /\ x.d[n][1] \in VALID_SAFETY_VALUES
                                       /\ x.d[n][2] \in SAFETY_THRESHOLDS
      [] key = "temperature" -> IsNumber(x) /\ 0 <= Tenths(x) /\ Tenths(x) <= 20
      [] key = "top_p" -> IsNumber(x) /\ 0 <= Tenths(x) /\ Tenths(x) <= 10
      [] key = "top_k" -> x.t = "int" /\ x.n >= 0
      [] key = "max_output_tokens" -> x.t = "int" /\ x.n > 0

InvalidOptions(cfg) == {k \in PresentOptions(cfg) : ~MeetsRule(cfg, k)}

KnownKeys == DOMAIN config \subseteq available_config_options

(* C17: a dict with a key outside the ten option names is rejected with   *)
(* the unknown-keys error, whatever the values of its other keys are.     *)
C17_UnknownKeyRejectedFirst ==
    (Parsed /\ ~KnownKeys) =>
        /\ ParsedStatus = "ValueError"
        /\ Val(parsed).value = <<"Unknown config keys: ">> \o sorted(DOMAIN config \ available_config_options)

C17_Witness ==
    /\ Parsed
    /\ ParsedStatus = "ValueError"
    /\ DOMAIN config = {"foo", "top_k", "temperature"}
    /\ config["top_k"] = PyInt(-1)
    /\ config["temperature"] = PyFloat(20)

(* C18 as claimed: a dict that has allowed_tool_for_config and no          *)
(* tool_config_mode is rejected.                                           *)
C18_AllowedToolsRequireMode ==
    (/\ Parsed
     /\ "allowed_tool_for_config" \in PresentOptions(config)
     /\ "tool_config_mode" \notin PresentOptions(config)) =>
        ParsedStatus # "ok"

(* C19 as claimed: when exactly one option of a dict of known keys breaks *)
(* its rule, _parse_config raises and the message names that option key.  *)
C19_FailureNamesInvalidOption ==
    (Parsed /\ KnownKeys /\ Cardinality(InvalidOptions(config)) = 1) =>
        /\ ParsedStatus = "ValueError"
        /\ InvalidOptions(config) \subseteq Range(Val(parsed).value)

----------------------------------------------------------------------------
(* Properties of calculate_cost *)

(* the cost of the counters of the current state, in 1e-7 USD *)
CostNow ==
    input_token_count * Val(pricing(model_name)).input
    + output_token_count * Val(pricing(model_name)).output

(* C21: calculate_cost returns input_token_count * input price plus        *)
(* output_token_count * output price of the model and changes neither      *)
(* context, history nor the counters, so the value it returned is still    *)
(* the cost of the state it leaves and a second call returns it again.     *)
C21_CostIsPure ==
    /\ [](ret.op = "calculate_cost" => ret.status = "ok" /\ ret.value = <<CostNow>>)
    /\ [][ret'.op = "calculate_cost" =>
              /\ context' = context
              /\ history' = history
              /\ input_token_count' = input_token_count
              /\ output_token_count' = output_token_count
              /\ ret.op = "calculate_cost" => ret' = ret]_vars

C21_Witness ==
    /\ ret.op = "calculate_cost"
    /\ ret.status = "ok"
    /\ input_token_count > 0
    /\ output_token_count > 0
    /\ history # <<>>
    /\ ret.value[1] > 0

----------------------------------------------------------------------------
(* Properties of the registries of AIManager *)

(* C22 as claimed: after delete_agent(name) the name is not registered.   *)
C22_DeleteRemovesAgent ==
    mret.op = "delete_agent" => mret.args.name \notin DOMAIN agent_dict

----------------------------------------------------------------------------
(* Termination of send_message *)

(* C23: a send_message call that has started returns a response or raises *)
(* RuntimeError, it never makes more than 3 attempts, and until it has     *)
(* returned no other operation of the agent returns.                       *)
C23_SendTerminates ==
    /\ (pc # "idle") ~> (SendReturned \/ SendFailed)
    /\ [](Len(streams) <= 3 /\ i <= 3)
    /\ [][pc # "idle" => ret'.op = "send_message"]_vars

C23_Witness ==
    /\ SendFailed
    /\ Len(streams) = 3
    /\ \E k \in 1..3 : fragments[k] # <<>>
    /\ Len(history) = 1

----------------------------------------------------------------------------
(* Properties of history and of the persisted records *)

(* the records persisted so far followed by the records still in memory *)
AllRecords == db \o history

(* C24: a step changes history only by appending one record or by a        *)
(* dump_history call that succeeded and handed exactly the records of      *)
(* history, in order, to the store; every record made so far is persisted  *)
(* or in memory exactly once, in turn order.                               *)
C24_RecordsPersistedOnce ==
    /\ [](/\ Len(AllRecords) = clock
          /\ \A k \in DOMAIN AllRecords : AllRecords[k].timestamp = k - 1)
    /\ [][/\ history' # history =>
                \/ /\ Len(history') = Len(history) + 1
                   /\ SubSeq(history', 1, Len(history)) = history
                   /\ db' = db
                \/ /\ ret'.op = "dump_history" /\ ret'.status = "ok"
                   /\ history' = <<>>
                   /\ db' = db \o history
          /\ db' # db => (history' = <<>> /\ db' = db \o history)]_vars

C24_Witness ==
    /\ ret.op = "dump_history"
    /\ ret.status = "error"
    /\ Len(db) >= 1
    /\ Len(history) >= 1


(* the registries and everything the agents hold *)
Registries == <<client_dict, agent_dict, agent_keys, mdb>>

(* C25: an AIManager call that fails a registry check raises ValueError    *)
(* and leaves client_dict and agent_dict, the agents in it included, as    *)
(* they were: create_client for an AI that has a client, close_client for  *)
(* an AI without one, create_agent without the client or for a registered  *)
(* name, add_context, send_message and dump_agent_history for a name that  *)
(* is not registered.                                                      *)
C25_FailedCheckLeavesRegistries ==
    [][LET op == mret'.op
           args == mret'.args
           failed == mret'.status = "ValueError" /\ Registries' = Registries
       IN  /\ (op = "create_client" /\ args.ai_name \in DOMAIN client_dict) => failed
           /\ (op = "close_client" /\ args.ai_name \notin DOMAIN client_dict) => failed
           /\ (op = "create_agent" /\ (\/ args.ai_name \notin DOMAIN client_dict
                                       \/ args.agent_name \in DOMAIN agent_dict)) => failed
           /\ (/\ op \in {"add_context", "send_message", "dump_agent_history"}
               /\ args.agent_name \notin DOMAIN agent_dict) => failed]_vars

C25_Witness ==
    /\ mret.op = "create_agent"
    /\ mret.status = "ValueError"
    /\ mret.args.agent_name \in DOMAIN agent_dict
    /\ agent_dict[mret.args.agent_name].history # <<>>
    /\ agent_dict[mret.args.agent_name].context # <<>>
    /\ agent_dict[mret.args.agent_name].input_token_count > 0

----------------------------------------------------------------------------
(* Properties of the chunks of a stream *)

(* C26 as claimed: a chunk that is delivered, whatever its text and its    *)
(* token counts are, leaves the attempt streaming; its text or "" is       *)
(* appended to the response and a missing token count adds nothing.        *)
C26_DeliveredChunkNeverFailsAttempt ==
    [][(pc = "streaming" /\ fragments' # fragments) =>
           /\ pc' = "streaming"
           /\ input_token_count' >= input_token_count
           /\ output_token_count' >= output_token_count]_vars


(* the timestamps of the records of a sequence *)
Timestamps(records) == {records[n].timestamp : n \in 1..Len(records)}

(* C27: dump_all_histories clears the history of an agent only when its   *)
(* records were committed: when the persistence of the n-th agent raises, *)
(* the agents before it are committed, in the order of the dict, and left *)
(* with an empty history, and the n-th agent and those after it keep      *)
(* theirs; across all operations every record is committed or in the      *)
(* history of its agent.                                                  *)
C27_DumpAllFlushThenClear ==
    /\ [](/\ Len(mdb) <= mclock
          /\ Timestamps(mdb) \cup UNION {Timestamps(agent_dict[k].history) : k \in DOMAIN agent_dict}
                 = 0..(mclock - 1))
    /\ [][mret'.op = "dump_all_histories" =>
              LET n == mret'.args.fail_at IN
              /\ mret'.status = "error" <=> n # 0
              /\ \A k \in 1..Len(agent_keys) :
                     LET before == agent_dict[agent_keys[k]].history
                         after == agent_dict'[agent_keys[k]].history
                     IN  IF n = 0 \/ k < n
                         THEN /\ after = <<>>
                              /\ Timestamps(before) \subseteq Timestamps(mdb')
                         ELSE /\ after = before
                              /\ Timestamps(before) \cap Timestamps(mdb') = {}
              /\ SubSeq(mdb', 1, Len(mdb)) = mdb
              /\ \A k, l \in 1..Len(agent_keys) :
                     (k < l /\ (n = 0 \/ l < n)) =>
                         \A a \in 1..Len(mdb'), b \in 1..Len(mdb') :
                             (/\ mdb'[a].name = agent_keys[l]
                              /\ mdb'[b].name = agent_keys[k]
                              /\ a > Len(mdb) /\ b > Len(mdb)) => b < a]_vars

C27_Witness ==
    /\ mret.op = "dump_all_histories"
    /\ mret.status = "error"
    /\ mret.args.fail_at = 2
    /\ Len(agent_keys) = 2
    /\ agent_dict[agent_keys[1]].history = <<>>
    /\ agent_dict[agent_keys[2]].history # <<>>
    /\ \E n \in 1..Len(mdb) : mdb[n].name = agent_keys[1]

----------------------------------------------------------------------------
(* Properties of the pricing table *)

(* C28: every model of AVAILABLE_MODELS has an entry in the pricing table, *)
(* the model of the agent is one of them in every state, and no            *)
(* calculate_cost call raises the ValueError of a missing entry.           *)
C28_AllowedModelsArePriced ==
    /\ \A m \in AVAILABLE_MODELS : ~IsNone(pricing(m))
    /\ model_name \in AVAILABLE_MODELS
    /\ ~IsNone(pricing(model_name))
    /\ ret.op = "calculate_cost" => ret.status # "ValueError"

C28_Witness ==
    /\ ret.op = "calculate_cost"
    /\ ret.status = "ok"
    /\ model_name = "gemini-2.5-flash-lite"
    /\ ret.value = <<input_token_count + 4 * output_token_count>>
    /\ output_token_count > 0

====
